---- MODULE Spec2Model ----
(***************************************************************************)
(* Process supervisor of the n8n wrapper, in its three variants:           *)
(*   "sh"  - serve-n8n.sh (bash, runs under set -euo pipefail)             *)
(*   "idx" - server/src/index.mjs driven by server/bin/serve.mjs           *)
(*   "scr" - scripts/serve-n8n.mjs                                         *)
(* A behaviour is one invocation of the supervisor: it runs one command    *)
(* against the pid file and the processes left by earlier invocations.     *)
(* A step of the model is the code that runs between two sleeps; children  *)
(* die between steps.  serve-n8n.sh exits when its command ends; a Node    *)
(* supervisor exits when its command has ended and no child it spawned is  *)
(* left alive.                                                             *)
(***************************************************************************)
EXTENDS Integers, Sequences, FiniteSets, TLC

\* ---- bounds of the model ----
MaxSpawn == 6
MaxAlive == 2

\* ---- program constants ----
MAX_RESTARTS == 5
ShMaxAttempts == 30
\* the sleeps of start_server: after the spawn, and in the polling loop
\* RESTART_DELAY and HEALTH_CHECK_INTERVAL of serve-n8n.sh, restart_delay and
\* health_interval of the Node variants, in seconds
RESTART_DELAY == 10
HEALTH_CHECK_INTERVAL == 30
\* monitor_server of serve-n8n.sh and scripts/serve-n8n.mjs after a failed
\* start: the sleep of the failure branch, then the sleep that ends the pass
MonitorBackoff == RESTART_DELAY + HEALTH_CHECK_INTERVAL
\* restart_server of index.mjs: its sleep(2) before start_server
RestartPause == 2
\* a retry_restart that goes on after no more than restart_server's own pause
RetryWaitOmitted == RestartPause
\* retry_restart of index.mjs: the sleep before the next restart_server
RetryWait == RESTART_DELAY
ShGrace == 5
ShTick == 2
IdxGrace == 5
IdxTick == 3
ScrGrace == 5
ScrTick == 3
ShStopAttempts == 10

Variants == {"sh", "idx", "scr"}
Commands == {"start", "stop", "restart", "monitor"}
Candidates == <<"bun", "npx", "npm">>
\* the search paths the model starts from: each launcher as the first available
SearchPaths == {{}, {"npm"}, {"npx", "npm"}, {"bun", "npx", "npm"}}
\* outcome of one HTTP GET on the health endpoint: a 2xx answer, an HTTP
\* error status, or a transport error (connection refused, timeout)
Probes == {"ok", "bad", "err"}

\* the pid file: missing, holding no text, or holding a pid (> 0)
Absent == 0
Blank == -1
\* a pid file holding text that is not a number
Garbage == -2

VARIABLES
    variant,        \* which supervisor script is in use
    avail,          \* launchers found on the search path
    pidFile,        \* Absent, Blank or the recorded pid
    alive,          \* pids of the live children
    nextPid,        \* pid the next spawned child gets
    cmd,            \* command the supervisor was invoked with
    pc,             \* position of the invocation in the code
    stack,          \* return labels of the calls in progress
    errexit,        \* sh: set -e is in effect in the function being run
    rvOk,           \* result of the last call: status 0 / a truthy state
    ct,             \* restart counter (restart_count, _ct, ct)
    attempts,       \* counter of the polling loop being run
    tpid,           \* pid the running start or stop works on
    loopPid,        \* idx: pid seen by the last pass of start's polling loop
    exitCode,       \* exit code of the finished invocation, -1 while running
    lastLog,        \* last notable message logged
    reported,       \* pid reported by start as already running (0: none)
    termSent,       \* sh, scr: SIGTERMs sent by the latest stop
    killSent,       \* SIGKILLs sent by the latest stop
    ticks,          \* sh, scr: one-second waits completed by the latest stop
    restartAttempts,\* start attempts made by restart (idx: by the latest
                    \* restart_server chain)
    allDied,        \* every grace check of the invocation found its child dead
    tick,           \* what monitor's latest pass found: dead, healthy, unhealthy
    acts,           \* signals sent and children spawned since the invocation,
                    \* or the latest pass of its monitor loop, began
    seen,           \* idx: what start_server's state check has just found
    sig,            \* what SIGINT and SIGTERM do to the supervisor: "default",
                    \* "armed" (a handler is installed), "caught" (the handler
                    \* has run), "killed" (the default action ended it)
    logs,           \* the `logs` command: the two log files, N, and the output
    slept,          \* seconds the latest start_server has slept (its grace
                    \* period and the ticks of its polling loop)
    waited,         \* seconds the supervisor slept after the latest failed
                    \* start attempt of its monitor loop or restart chain,
                    \* before going on
    svc,            \* service.ps1: its -count argument, $script:current, and
                    \* the passes its poll or monitor loop has made
    inv             \* invocations running side by side on one pid file: what
                    \* each runs, where it is, and the pid it holds

vars == <<variant, avail, pidFile, alive, nextPid, cmd, pc, stack,
          errexit, rvOk, ct, attempts, tpid, loopPid, exitCode, lastLog,
          reported, termSent, killSent, ticks, restartAttempts, allDied, tick,
          acts, seen, sig, logs, slept, waited, svc, inv>>

envVars == <<variant, avail, cmd, seen, logs, sig, slept, waited, svc, inv>>
stopObs == <<termSent, killSent, ticks>>

\* the model's bound on children: how many are spawned, how many live at once
CanSpawn == nextPid <= MaxSpawn /\ Cardinality(alive) < MaxAlive

\* pids of the children earlier invocations spawned
Earlier == {1}
\* the live children this invocation spawned itself: a Node supervisor holds
\* their ChildProcess handles, which keep its event loop running
Own == alive \ Earlier


\* the invocations that may run side by side, and what each of them runs: the
\* start command, or a command that only checks liveness (status)
Invocations == {1, 2}
Ops == {"start", "check"}
\* an invocation that is not running: op, position, the pid it holds in a
\* local, the state of the descriptor it writes the pid file through ("none",
\* "open", or "orphan" once the file was unlinked under it), and what its
\* latest read of the pid file observed
IdleInv == [op |-> "check", pc |-> "idle", pid |-> 0, fd |-> "none", saw |-> "none"]
NoInv == [i \in Invocations |-> IdleInv]

\* service.ps1 is not run
NoSvc == [count |-> 0, current |-> 0, runs |-> 0]

\* ---- control helpers ----
Goto(l) == pc' = l /\ UNCHANGED <<stack, exitCode>>
CallTo(target, ret) == pc' = target /\ stack' = <<ret>> \o stack /\ UNCHANGED exitCode
Return == pc' = Head(stack) /\ stack' = Tail(stack) /\ UNCHANGED exitCode
Exit(code) == pc' = "done" /\ stack' = <<>> /\ exitCode' = code

\* what a pass of a monitor loop found, given the pid it tracks and the probe
TickOf(pid, probe) ==
    IF ~(pid > 0 /\ pid \in alive) THEN "dead"
    ELSE IF probe = "ok" THEN "healthy" ELSE "unhealthy"

\* ================= serve-n8n.sh =================

\* is_running: kill -0 on the pid read from the pid file
ShIsRunning == pidFile > 0 /\ pidFile \in alive
\* the pid file is_running leaves behind (rm -f on a stale record)
ShIsRunningFile == IF pidFile # Absent /\ ~ShIsRunning THEN Absent ELSE pidFile

RECURSIVE FirstAvailable(_, _)
FirstAvailable(seq, av) ==
    IF seq = <<>> THEN "none"
    ELSE IF Head(seq) \in av THEN Head(seq) ELSE FirstAvailable(Tail(seq), av)
detect_runtime == FirstAvailable(Candidates, avail)

\* health_check: curl -f fails on an HTTP error status and on transport errors
health_check(probe) == probe = "ok"

\* exit status of (( x++ )): 1 when the expression's value (the old x) is 0
ArithStatus(old) == IF old = 0 THEN 1 ELSE 0

\* set -e is ignored in a function called as the test of an if
ShErrexit(callsite) == callsite # "if_test"

\* main up to the call of the command's function
ShMain ==
    /\ variant = "sh" /\ pc = "main"
    /\ UNCHANGED <<envVars, alive, nextPid, rvOk, ct, attempts, tpid, loopPid,
                   stopObs, restartAttempts, allDied, tick, acts>>
    /\ CASE cmd = "start" ->
              /\ pidFile' = ShIsRunningFile
              /\ IF ShIsRunning
                 THEN /\ reported' = pidFile /\ lastLog' = "already_running"
                      /\ errexit' = errexit /\ Exit(0)
                 ELSE /\ errexit' = ShErrexit("main_start")
                      /\ UNCHANGED <<reported, lastLog>>
                      /\ CallTo("sh_start", "sh_main_ret")
         [] cmd = "stop" ->
              /\ errexit' = ShErrexit("main_stop")
              /\ UNCHANGED <<pidFile, reported, lastLog>>
              /\ CallTo("sh_stop", "sh_main_ret")
         [] cmd = "restart" ->
              /\ errexit' = ShErrexit("restart_stop")
              /\ UNCHANGED <<pidFile, reported, lastLog>>
              /\ CallTo("sh_stop", "sh_restart_mid")
         [] cmd = "monitor" ->
              /\ pidFile' = ShIsRunningFile
              /\ UNCHANGED <<reported, lastLog>>
              /\ IF ShIsRunning
                 THEN errexit' = ShErrexit("main_monitor") /\ Goto("sh_monitor")
                 ELSE /\ errexit' = ShErrexit("main_monitor_start")
                      /\ CallTo("sh_start", "sh_monitor_entry")

\* the command's function returned to main: its status is the script's
ShMainRet ==
    /\ variant = "sh" /\ pc = "sh_main_ret"
    /\ Exit(IF rvOk THEN 0 ELSE 1)
    /\ UNCHANGED <<envVars, pidFile, alive, nextPid, errexit, rvOk, ct, attempts,
                   tpid, loopPid, lastLog, reported, stopObs, restartAttempts,
                   allDied, tick, acts>>

\* restart_server: stop_server; sleep 2; start_server
ShRestartMid ==
    /\ variant = "sh" /\ pc = "sh_restart_mid"
    /\ errexit' = ShErrexit("restart_start")
    /\ restartAttempts' = restartAttempts + 1
    /\ CallTo("sh_start", "sh_main_ret")
    /\ UNCHANGED <<envVars, pidFile, alive, nextPid, rvOk, ct, attempts,
                   tpid, loopPid, lastLog, reported, stopObs,
                   allDied, tick, acts>>

\* main's monitor case: the start_server it runs before monitor_server has
\* returned
ShMonitorEntry ==
    /\ variant = "sh" /\ pc = "sh_monitor_entry"
    /\ IF ~rvOk /\ ShErrexit("main_monitor_start")
       THEN Exit(1)
       ELSE Goto("sh_monitor")
    /\ ct' = 0
    /\ UNCHANGED <<envVars, pidFile, alive, nextPid, errexit, rvOk, attempts,
                   tpid, loopPid, lastLog, reported, stopObs, restartAttempts,
                   allDied, tick, acts>>

\* one pass of monitor_server's while loop, up to its next sleep or call
ShMonitorTick ==
    /\ variant = "sh" /\ pc = "sh_monitor"
    /\ pidFile' = ShIsRunningFile
    /\ acts' = {}
    /\ UNCHANGED <<envVars, alive, nextPid, rvOk, ct, attempts, tpid, loopPid,
                   reported, stopObs, allDied>>
    /\ \E probe \in Probes :
         /\ tick' = TickOf(pidFile, probe)
         /\ IF ~ShIsRunning
            THEN IF ct >= MAX_RESTARTS
                 THEN /\ lastLog' = "max_restarts" /\ Exit(1)
                      /\ UNCHANGED <<errexit, restartAttempts>>
                 ELSE /\ lastLog' = "attempting_restart"
                      /\ restartAttempts' = restartAttempts + 1
                      /\ errexit' = ShErrexit("if_test")
                      /\ CallTo("sh_start", "sh_monitor_ret")
            ELSE /\ lastLog' = IF health_check(probe) THEN "none" ELSE "health_warn"
                 /\ Goto("sh_monitor")
                 /\ UNCHANGED <<errexit, restartAttempts>>

\* monitor_server after `if start_server`: the counter, then the sleeps
ShMonitorRet ==
    /\ variant = "sh" /\ pc = "sh_monitor_ret"
    /\ errexit' = ShErrexit("main_monitor")
    /\ IF rvOk
       THEN /\ ct' = 0 /\ lastLog' = "restarted" /\ Goto("sh_monitor")
            /\ UNCHANGED <<waited, svc>>
       ELSE IF ShErrexit("main_monitor") /\ ArithStatus(ct) # 0
            THEN /\ ct' = ct + 1 /\ Exit(1) /\ UNCHANGED lastLog
                 /\ waited' = 0
            ELSE /\ ct' = ct + 1 /\ lastLog' = "restart_failed" /\ Goto("sh_monitor")
                 /\ waited' = MonitorBackoff
    /\ UNCHANGED <<variant, avail, cmd, seen, logs, sig, slept, svc, inv, pidFile, alive, nextPid, rvOk, attempts, tpid, loopPid,
                   reported, stopObs, restartAttempts, allDied, tick, acts>>

\* start_server up to `sleep 5`
ShStartSpawn ==
    /\ variant = "sh" /\ pc = "sh_start"
    /\ UNCHANGED <<envVars, errexit, rvOk, ct, attempts, loopPid, reported,
                   stopObs, restartAttempts, allDied, tick>>
    /\ IF detect_runtime = "none"
       THEN /\ lastLog' = "no_runtime" /\ Exit(1)
            /\ UNCHANGED <<pidFile, alive, nextPid, tpid, acts>>
       ELSE /\ CanSpawn
            /\ alive' = alive \cup {nextPid}
            /\ nextPid' = nextPid + 1
            /\ acts' = acts \cup {"spawn"}
            /\ pidFile' = nextPid
            /\ tpid' = nextPid
            /\ lastLog' = "starting"
            /\ Goto("sh_grace")

\* start_server after `sleep 5`, through the first health_check
ShStartGrace ==
    /\ variant = "sh" /\ pc = "sh_grace"
    /\ UNCHANGED <<variant, avail, cmd, seen, logs, inv, sig, alive, nextPid, errexit,
                   ct, tpid, loopPid, reported, stopObs, restartAttempts, tick,
                   acts>>
    /\ attempts' = 0
    /\ slept' = ShGrace /\ UNCHANGED <<waited, svc>>
    /\ IF tpid \notin alive
       THEN /\ lastLog' = "start_failed" /\ pidFile' = Absent
            /\ rvOk' = FALSE /\ Return
            /\ UNCHANGED allDied
       ELSE /\ allDied' = FALSE /\ UNCHANGED pidFile
            /\ \E probe \in Probes :
                 IF health_check(probe)
                 THEN lastLog' = "ready" /\ rvOk' = TRUE /\ Return
                 ELSE lastLog' = "started" /\ UNCHANGED rvOk /\ Goto("sh_tick")

\* start_server's polling loop after `sleep 2`: ((attempts++)), the liveness
\* check, the loop test and the next health_check
ShStartTick ==
    /\ variant = "sh" /\ pc = "sh_tick"
    /\ UNCHANGED <<variant, avail, cmd, seen, logs, inv, sig, alive, nextPid, errexit,
                   ct, tpid, loopPid, reported, stopObs, restartAttempts, allDied,
                   tick, acts>>
    /\ attempts' = attempts + 1
    /\ slept' = slept + ShTick /\ UNCHANGED <<waited, svc>>
    /\ IF errexit /\ ArithStatus(attempts) # 0
       THEN Exit(1) /\ UNCHANGED <<pidFile, rvOk, lastLog>>
       ELSE IF tpid \notin alive
            THEN /\ lastLog' = "died_during_startup" /\ pidFile' = Absent
                 /\ rvOk' = FALSE /\ Return
            ELSE /\ UNCHANGED pidFile
                 /\ IF attempts + 1 < ShMaxAttempts
                    THEN \E probe \in Probes :
                           IF health_check(probe)
                           THEN lastLog' = "ready" /\ rvOk' = TRUE /\ Return
                           ELSE UNCHANGED <<rvOk, lastLog>> /\ Goto("sh_tick")
                    ELSE /\ lastLog' = "health_timeout_warn" /\ rvOk' = TRUE
                         /\ Return

\* health_check called on a peer that accepts the connection and never
\* answers: curl is run without --max-time or --connect-timeout and does not
\* return. The call is the one of start_server after `sleep 5` (the child being
\* alive) or the one of a pass of monitor_server (the process running), a pass
\* that finds nothing as it never ends
ShHealthCheckHangs ==
    /\ variant = "sh"
    /\ \/ /\ pc = "sh_grace" /\ tpid \in alive
          /\ attempts' = 0 /\ slept' = ShGrace
          /\ allDied' = FALSE /\ lastLog' = "started"
          /\ UNCHANGED <<pidFile, tick, acts>>
       \/ /\ pc = "sh_monitor" /\ ShIsRunning
          /\ acts' = {} /\ tick' = "none"
          /\ UNCHANGED <<pidFile, attempts, slept, allDied, lastLog>>
    /\ Goto("sh_blocked")
    /\ UNCHANGED <<variant, avail, cmd, seen, logs, inv, sig, alive, nextPid,
                   errexit, rvOk, ct, tpid, loopPid, reported, stopObs,
                   restartAttempts, waited, svc>>

\* stop_server up to the first `sleep 1`; the process may have died of the
\* SIGTERM by the first kill -0 of the loop test, and then no sleep is made
ShStopTerm ==
    /\ variant = "sh" /\ pc = "sh_stop"
    /\ UNCHANGED <<envVars, nextPid, errexit, ct, loopPid, reported,
                   restartAttempts, allDied, tick>>
    /\ ticks' = 0 /\ attempts' = 0 /\ killSent' = 0
    /\ IF ~ShIsRunning
       THEN /\ lastLog' = "not_running" /\ rvOk' = TRUE /\ Return
            /\ pidFile' = ShIsRunningFile /\ alive' = alive
            /\ termSent' = 0
            /\ UNCHANGED <<tpid, acts>>
       ELSE /\ tpid' = pidFile /\ termSent' = 1
            /\ acts' = acts \cup {"term"}
            /\ \E gone \in BOOLEAN :
                 IF gone
                 THEN /\ alive' = alive \ {pidFile}
                      /\ pidFile' = Absent /\ lastLog' = "stopped"
                      /\ rvOk' = TRUE /\ Return
                 ELSE /\ pidFile' = pidFile /\ alive' = alive
                      /\ lastLog' = "stopping" /\ UNCHANGED rvOk
                      /\ Goto("sh_stop_tick")

\* stop_server after a `sleep 1`: ((attempts++)), the loop test, the force
\* kill and the final rm -f
ShStopTick ==
    /\ variant = "sh" /\ pc = "sh_stop_tick"
    /\ UNCHANGED <<envVars, nextPid, errexit, ct, tpid, loopPid, reported,
                   termSent, restartAttempts, allDied, tick>>
    /\ attempts' = attempts + 1
    /\ ticks' = ticks + 1
    /\ IF errexit /\ ArithStatus(attempts) # 0
       THEN Exit(1) /\ UNCHANGED <<pidFile, alive, rvOk, lastLog, killSent, acts>>
       ELSE IF attempts + 1 < ShStopAttempts /\ tpid \in alive
            THEN /\ Goto("sh_stop_tick")
                 /\ UNCHANGED <<pidFile, alive, rvOk, lastLog, killSent, acts>>
            ELSE /\ pidFile' = Absent /\ lastLog' = "stopped"
                 /\ rvOk' = TRUE /\ Return
                 /\ IF tpid \in alive
                    THEN /\ killSent' = killSent + 1
                         /\ acts' = acts \cup {"kill"}
                         /\ \E dies \in BOOLEAN :
                              alive' = IF dies THEN alive \ {tpid} ELSE alive
                    ELSE UNCHANGED <<alive, killSent, acts>>

\* ================= scripts/serve-n8n.mjs =================

\* get_pid: the trimmed pid file parsed as a number; empty text is falsy
ScrGetPid == IF pidFile > 0 THEN pidFile ELSE 0
\* is_running with its test inverted: the pid when process.kill(pid, 0) throws
ScrIsRunningInverted ==
    IF ScrGetPid > 0 /\ ScrGetPid \notin alive THEN ScrGetPid ELSE 0
\* is_running: the pid when process.kill(pid, 0) does not throw, else undefined;
\* the pid file is not touched
ScrIsRunning == IF ScrGetPid > 0 /\ ScrGetPid \in alive THEN ScrGetPid ELSE 0
\* set_pid: null removes an existing file, and writes an empty one otherwise
ScrSetPid(pid) ==
    IF pid = 0
    THEN IF pidFile # Absent THEN Absent ELSE Blank
    ELSE pid
\* run: spawnSync(cmd, { shell }); without a shell the whole command line is
\* taken as the name of a program, which does not exist: status null (<<>>)
ScrRunCode(shell, status) == IF shell THEN <<status>> ELSE <<>>
\* exit status of curl -f -s
CurlStatus(probe) == IF probe = "ok" THEN 0 ELSE IF probe = "bad" THEN 22 ELSE 7
\* !code
Falsy(code) == code = <<>> \/ code = <<0>>
\* is_healthy: !run(`curl -f -s ...`).code, run called without its shell argument
is_healthy(probe) == Falsy(ScrRunCode(FALSE, CurlStatus(probe)))

\* main: server[command]()
ScrMain ==
    /\ variant = "scr" /\ pc = "main"
    /\ UNCHANGED <<envVars, pidFile, alive, nextPid, errexit, rvOk, attempts, tpid,
                   loopPid, lastLog, reported, stopObs, restartAttempts, allDied,
                   tick, acts>>
    /\ ct' = 0
    /\ CASE cmd = "start" -> CallTo("scr_start", "scr_main_ret")
         [] cmd = "stop" -> CallTo("scr_stop", "scr_main_ret")
         [] cmd = "restart" -> CallTo("scr_stop", "scr_restart_mid")
         [] cmd = "monitor" -> Goto("scr_monitor")

\* the command's promise settled; once no child of this process is left
\* nothing is left to run: exit code 0
ScrMainRet ==
    /\ variant = "scr" /\ pc = "scr_main_ret"
    /\ Own = {}
    /\ Exit(0)
    /\ UNCHANGED <<envVars, pidFile, alive, nextPid, errexit, rvOk, ct, attempts,
                   tpid, loopPid, lastLog, reported, stopObs, restartAttempts,
                   allDied, tick, acts>>

\* server.restart: stop_server().then(() => sleep(2, start_server))
ScrRestartMid ==
    /\ variant = "scr" /\ pc = "scr_restart_mid"
    /\ restartAttempts' = restartAttempts + 1
    /\ CallTo("scr_start", "scr_main_ret")
    /\ UNCHANGED <<envVars, pidFile, alive, nextPid, errexit, rvOk, ct, attempts,
                   tpid, loopPid, lastLog, reported, stopObs,
                   allDied, tick, acts>>

\* start_server up to sleep(5): serve() runs `npx n8n` through a shell, so a
\* child with a pid exists even when npx is missing (that shell exits at once)
ScrStartSpawn ==
    /\ variant = "scr" /\ pc = "scr_start"
    /\ UNCHANGED <<envVars, errexit, rvOk, ct, attempts, loopPid, stopObs,
                   restartAttempts, allDied, tick>>
    /\ IF ScrIsRunning > 0
       THEN /\ lastLog' = "already_running" /\ reported' = ScrIsRunning
            /\ Return
            /\ UNCHANGED <<pidFile, alive, nextPid, tpid, acts>>
       ELSE /\ CanSpawn
            /\ alive' = IF "npx" \in avail THEN alive \cup {nextPid} ELSE alive
            /\ nextPid' = nextPid + 1
            /\ acts' = acts \cup {"spawn"}
            /\ pidFile' = nextPid
            /\ tpid' = nextPid
            /\ lastLog' = "starting"
            /\ UNCHANGED reported
            /\ Goto("scr_grace")

\* start_server's sleep(5) callback: the grace check and the polling loop, one
\* pass per sleep(3)
ScrStartWait ==
    /\ variant = "scr" /\ pc \in {"scr_grace", "scr_tick"}
    /\ UNCHANGED <<variant, avail, cmd, seen, logs, inv, sig, alive, nextPid, errexit,
                   rvOk, ct, tpid, loopPid, reported, stopObs, restartAttempts,
                   tick, acts>>
    /\ attempts' = IF pc = "scr_grace" THEN 0 ELSE attempts + 1
    /\ slept' = IF pc = "scr_grace" THEN ScrGrace ELSE slept + ScrTick
    /\ UNCHANGED <<waited, svc>>
    /\ IF ScrIsRunning = 0
       THEN /\ lastLog' = IF pc = "scr_grace" THEN "start_failed"
                          ELSE "died_during_startup"
            /\ pidFile' = ScrSetPid(0)
            /\ UNCHANGED allDied
            /\ Return
       ELSE /\ UNCHANGED pidFile
            /\ allDied' = IF pc = "scr_grace" THEN FALSE ELSE allDied
            /\ IF attempts' < 10
               THEN \E probe \in Probes :
                      IF is_healthy(probe)
                      THEN lastLog' = "ready" /\ Return
                      ELSE lastLog' = "not_ready" /\ Goto("scr_tick")
               ELSE lastLog' = "health_timeout_warn" /\ Return

\* try_kill: true when process.kill(pid, SIGTERM) did not throw
ScrTryKill(pid) == pid \in alive

\* stop_server: the wait loop and the force kill run only when the first
\* try_kill() is falsy
ScrStop ==
    /\ variant = "scr" /\ pc \in {"scr_stop", "scr_stop_tick"}
    /\ UNCHANGED <<envVars, nextPid, errexit, rvOk, ct, loopPid, reported,
                   restartAttempts, allDied, tick>>
    /\ IF pc = "scr_stop"
       THEN /\ attempts' = 0 /\ ticks' = 0 /\ killSent' = 0
            /\ UNCHANGED alive
            /\ IF ScrIsRunning = 0
               THEN /\ lastLog' = "not_running" /\ Return /\ termSent' = 0
                    /\ UNCHANGED <<pidFile, tpid, acts>>
               ELSE /\ tpid' = ScrIsRunning
                    /\ termSent' = 1
                    /\ acts' = acts \cup {"term"}
                    /\ IF ~ScrTryKill(ScrIsRunning)
                       THEN Goto("scr_stop_tick") /\ UNCHANGED <<pidFile, lastLog>>
                       ELSE /\ pidFile' = ScrSetPid(0) /\ lastLog' = "stopped"
                            /\ Return
       ELSE /\ attempts' = attempts + 1 /\ ticks' = ticks + 1
            /\ termSent' = IF ScrTryKill(tpid) THEN termSent + 1 ELSE termSent
            /\ UNCHANGED tpid
            /\ IF attempts + 1 < 10 /\ ~ScrTryKill(tpid)
               THEN Goto("scr_stop_tick")
                    /\ UNCHANGED <<pidFile, alive, lastLog, killSent, acts>>
               ELSE /\ pidFile' = ScrSetPid(0) /\ lastLog' = "stopped"
                    /\ Return
                    /\ IF ScrIsRunning > 0
                       THEN /\ killSent' = killSent + 1
                            /\ acts' = acts \cup {"kill"}
                            /\ \E dies \in BOOLEAN :
                                 alive' = IF dies THEN alive \ {ScrIsRunning}
                                          ELSE alive
                       ELSE UNCHANGED <<alive, killSent, acts>>

\* one pass of monitor_server's while loop, up to its next sleep or call
ScrMonitorTick ==
    /\ variant = "scr" /\ pc = "scr_monitor"
    /\ acts' = {}
    /\ UNCHANGED <<envVars, pidFile, alive, nextPid, errexit, rvOk, ct, attempts,
                   tpid, loopPid, reported, stopObs, allDied>>
    /\ \E probe \in Probes :
         /\ tick' = TickOf(ScrGetPid, probe)
         /\ IF ScrIsRunning = 0
            THEN IF ct >= MAX_RESTARTS
                 THEN /\ lastLog' = "max_restarts" /\ Exit(0)
                      /\ UNCHANGED restartAttempts
                 ELSE /\ lastLog' = "attempting_restart"
                      /\ restartAttempts' = restartAttempts + 1
                      /\ CallTo("scr_start", "scr_monitor_ret")
            ELSE /\ lastLog' = IF is_healthy(probe) THEN "none" ELSE "health_warn"
                 /\ Goto("scr_monitor")
                 /\ UNCHANGED restartAttempts

\* monitor_server's .then after start_server, and the sleeps
ScrMonitorRet ==
    /\ variant = "scr" /\ pc = "scr_monitor_ret"
    /\ IF ScrIsRunning > 0
       THEN /\ lastLog' = "restarted" /\ UNCHANGED ct
            /\ UNCHANGED <<waited, svc>>
       ELSE /\ lastLog' = "restart_failed" /\ ct' = ct + 1
            /\ waited' = MonitorBackoff
    /\ Goto("scr_monitor")
    /\ UNCHANGED <<variant, avail, cmd, seen, logs, sig, slept, svc, inv, pidFile, alive, nextPid, errexit, rvOk, attempts, tpid,
                   loopPid, reported, stopObs, restartAttempts, allDied, tick,
                   acts>>

\* ================= server/src/index.mjs =================

\* run(cmd).output: spawnSync's [null, stdout, stderr], each trimmed, joined
\* with "\n"; what is modelled is the length of that string
RunOutputLen(outLen, errLen) == 0 + 1 + outLen + 1 + errLen
\* test_command: !!run(`which name`).output
test_command(name) == RunOutputLen(IF name \in avail THEN 1 ELSE 0, 0) > 0
\* the launcher start_server picks
IdxLauncher ==
    IF test_command("bun") THEN "bun"
    ELSE IF test_command("npm") THEN "npm" ELSE "none"

\* what `ps -x | grep [n]8n` may print first: nothing, or a live child
Scans == {0} \cup alive

\* get_pid on pid file pf: the recorded pid or, when the file has no text, the
\* scan's result r, which is also written back (set_pid(pid || null), the
\* output of run never being empty); text that is no number is kept and
\* parses to NaN, which is no pid
IdxGetPid(pf, r) == IF pf > 0 THEN pf ELSE IF pf = Garbage THEN 0 ELSE r
IdxGetPidFile(pf, r) ==
    IF pf > 0 \/ pf = Garbage THEN pf ELSE IF r > 0 THEN r ELSE Blank

\* inspect_state that never takes the answer of fetch for a healthy one
inspect_state_deaf(pf, al, r, probe) ==
    LET pid == IdxGetPid(pf, r)
        up == pid > 0 /\ pid \in al /\ probe # "err"
    IN [pid |-> IF up THEN pid ELSE 0,
        health |-> FALSE,
        file |-> IdxGetPidFile(pf, r)]

\* inspect_state: [pid, health], or undefined (pid 0) when there is no pid,
\* when kill(pid, 0) throws and when fetch throws; file is the pid file it leaves
inspect_state(pf, al, r, probe) ==
    LET pid == IdxGetPid(pf, r)
        up == pid > 0 /\ pid \in al /\ probe # "err"
    IN [pid |-> IF up THEN pid ELSE 0,
        health |-> up /\ probe = "ok",
        file |-> IdxGetPidFile(pf, r)]

\* Math.floor(startup_timeout / restart_delay)
IdxMaxAttempts == 60 \div 10
\* bound of stop_server's while loop (ct < 10)
IdxStopAttempts == 10

\* bin/serve.mjs main: await server[command]()
IdxMain ==
    /\ variant = "idx" /\ pc = "main"
    /\ UNCHANGED <<envVars, alive, nextPid, errexit, rvOk, attempts, tpid, loopPid,
                   lastLog, reported, stopObs, restartAttempts, allDied, tick,
                   acts>>
    /\ ct' = 0
    /\ CASE cmd = "start" -> CallTo("idx_start", "idx_main_ret") /\ UNCHANGED pidFile
         [] cmd = "stop" -> CallTo("idx_stop", "idx_main_ret") /\ UNCHANGED pidFile
         [] cmd = "restart" ->
              CallTo("idx_restart", "idx_main_ret") /\ UNCHANGED pidFile
         [] cmd = "monitor" ->
              \E r \in Scans, p \in Probes :
                LET st == inspect_state(pidFile, alive, r, p) IN
                /\ pidFile' = st.file
                /\ IF st.pid = 0
                   THEN CallTo("idx_start", "idx_monitor")
                   ELSE Goto("idx_monitor")

\* main returned; once no child of this process is left the event loop is
\* empty: beforeExit runs the handler of initialize_handlers, set_pid(null),
\* and the process exits with code 0
IdxMainRet ==
    /\ variant = "idx" /\ pc = "idx_main_ret"
    /\ Own = {}
    /\ pidFile' = IF sig = "default" THEN pidFile ELSE Absent
    /\ Exit(0)
    /\ UNCHANGED <<envVars, alive, nextPid, errexit, rvOk, ct, attempts,
                   tpid, loopPid, lastLog, reported, stopObs, restartAttempts,
                   allDied, tick, acts>>

\* start_server up to the launcher choice: the state check, and stop_server
\* for a process that is running but unresponsive
IdxStartCheck ==
    /\ variant = "idx" /\ pc = "idx_start"
    /\ UNCHANGED <<variant, avail, cmd, logs, inv, sig, slept, waited, svc, alive, nextPid, errexit,
                   ct, attempts, tpid, loopPid, stopObs, restartAttempts, allDied,
                   tick, acts>>
    /\ \E r \in Scans, p \in Probes :
         LET st == inspect_state(pidFile, alive, r, p) IN
         /\ pidFile' = st.file
         /\ seen' = TickOf(IdxGetPid(pidFile, r), p)
         /\ IF st.health
            THEN /\ lastLog' = "already_running" /\ reported' = st.pid
                 /\ rvOk' = TRUE /\ Return
            ELSE /\ reported' = 0 /\ UNCHANGED rvOk
                 /\ IF st.pid > 0
                    THEN lastLog' = "unresponsive" /\ CallTo("idx_stop", "idx_spawn")
                    ELSE lastLog' = "starting" /\ Goto("idx_spawn")

\* initialize_handlers: process.on of SIGINT and SIGTERM (and of beforeExit);
\* a handler that has run stays installed
initialize_handlers == IF sig = "default" THEN "armed" ELSE sig

\* start_server from the launcher choice to sleep(5): spawn through a shell
\* (the child has a pid even when the launcher is missing, and then exits at
\* once), set_pid, initialize_handlers
IdxStartSpawn ==
    /\ variant = "idx" /\ pc = "idx_spawn"
    /\ UNCHANGED <<variant, avail, cmd, logs, inv, errexit, ct, loopPid, reported,
                   restartAttempts, allDied, tick>>
    /\ seen' = "none"
    /\ attempts' = 0 /\ killSent' = 0 /\ slept' = 0 /\ UNCHANGED <<waited, svc>>
    /\ UNCHANGED <<termSent, ticks>>
    /\ IF IdxLauncher = "none"
       THEN /\ lastLog' = "no_runtime" /\ rvOk' = FALSE /\ Return
            /\ tpid' = 0
            /\ UNCHANGED <<pidFile, alive, nextPid, acts, sig>>
       ELSE /\ CanSpawn
            /\ alive' = IF IdxLauncher \in avail THEN alive \cup {nextPid} ELSE alive
            /\ nextPid' = nextPid + 1
            /\ acts' = acts \cup {"spawn"}
            /\ pidFile' = nextPid
            /\ tpid' = nextPid
            /\ sig' = initialize_handlers
            /\ lastLog' = "starting"
            /\ UNCHANGED rvOk
            /\ Goto("idx_grace")

\* start_server's sleep(5) callback: the grace check and the polling loop, one
\* pass per sleep(3)
IdxStartWait ==
    /\ variant = "idx" /\ pc \in {"idx_grace", "idx_tick"}
    /\ UNCHANGED <<variant, avail, cmd, seen, logs, inv, sig, alive, nextPid, errexit,
                   ct, reported, stopObs, restartAttempts, tick, acts>>
    /\ tpid' = 0
    /\ attempts' = IF pc = "idx_grace" THEN 0 ELSE attempts + 1
    /\ slept' = IF pc = "idx_grace" THEN IdxGrace ELSE slept + IdxTick
    /\ UNCHANGED <<waited, svc>>
    /\ allDied' = IF pc = "idx_grace" /\ tpid \in alive THEN FALSE ELSE allDied
    /\ \E r \in Scans, p1 \in IF pc = "idx_grace" THEN Probes ELSE {"ok"} :
         LET first == inspect_state(pidFile, alive, r, p1) IN
         IF pc = "idx_grace" /\ first.pid = 0
         THEN /\ lastLog' = "start_failed" /\ pidFile' = first.file
              /\ rvOk' = FALSE /\ loopPid' = 0 /\ Return
         ELSE IF pc = "idx_tick" /\ loopPid = 0
         THEN /\ lastLog' = "died_during_startup" /\ UNCHANGED pidFile
              /\ rvOk' = FALSE /\ loopPid' = 0 /\ Return
         ELSE \E p2 \in Probes :
              LET cur == inspect_state(first.file, alive, r, p2) IN
              /\ pidFile' = cur.file
              /\ IF attempts' < IdxMaxAttempts
                 THEN IF cur.health
                      THEN /\ lastLog' = "ready" /\ rvOk' = TRUE
                           /\ loopPid' = 0 /\ Return
                      ELSE /\ lastLog' = "not_ready" /\ loopPid' = cur.pid
                           /\ UNCHANGED rvOk /\ Goto("idx_tick")
                 ELSE /\ lastLog' = "health_timeout_warn"
                      /\ rvOk' = (cur.pid > 0)
                      /\ loopPid' = 0 /\ Return

\* stop_server's tail: final_state, the error report or set_pid(null)
IdxStopFinal(al, pf, r) ==
    /\ alive' = al
    /\ \E p \in Probes :
         LET fs == inspect_state(pf, al, r, p) IN
         IF fs.pid > 0
         THEN lastLog' = "could_not_kill" /\ pidFile' = fs.file /\ rvOk' = TRUE
         ELSE lastLog' = "stopped" /\ pidFile' = Absent /\ rvOk' = FALSE
    /\ Return

\* stop_server after its while loop: if ((pid = await refresh())) force_kill(pid)
IdxStopPostLoop(pf, r) ==
    \E p \in Probes :
      LET st == inspect_state(pf, alive, r, p) IN
      IF st.pid > 0
      THEN /\ killSent' = killSent + 1
           /\ acts' = acts \cup {"kill"}
           /\ \E dies \in BOOLEAN :
                IdxStopFinal(IF dies THEN alive \ {st.pid} ELSE alive, st.file, r)
      ELSE /\ UNCHANGED <<killSent, acts>>
           /\ IdxStopFinal(alive, st.file, r)

\* one evaluation of the while condition: try_kill(true) up to its sleep(1),
\* or the loop body's sleep(1) when it found nothing to signal
IdxStopLoopIter(pf, r) ==
    /\ \E p \in Probes :
         LET st == inspect_state(pf, alive, r, p) IN
         /\ pidFile' = st.file
         /\ IF st.pid > 0
            THEN acts' = acts \cup {"term"} /\ Goto("idx_stop_b")
            ELSE UNCHANGED acts /\ Goto("idx_stop_idle")
    /\ UNCHANGED <<alive, killSent, rvOk, lastLog>>

\* stop_server up to the sleep(1) of the first try_kill()
IdxStopTerm ==
    /\ variant = "idx" /\ pc = "idx_stop"
    /\ UNCHANGED <<envVars, alive, nextPid, errexit, ct, loopPid, reported,
                   restartAttempts, allDied, tick>>
    /\ attempts' = 0 /\ killSent' = 0
    /\ UNCHANGED <<termSent, ticks>>
    /\ \E r \in Scans, p \in Probes :
         LET st == inspect_state(pidFile, alive, r, p) IN
         /\ pidFile' = st.file
         /\ IF st.pid = 0
            THEN /\ lastLog' = "not_running" /\ rvOk' = FALSE
                 /\ UNCHANGED <<tpid, acts>> /\ Return
            ELSE /\ lastLog' = "stopping" /\ tpid' = st.pid
                 /\ acts' = acts \cup {"term"}
                 /\ UNCHANGED rvOk
                 /\ Goto("idx_stop_a")

\* stop_server after the first try_kill(): if truthy, enter the while loop
IdxStopFirst ==
    /\ variant = "idx" /\ pc = "idx_stop_a"
    /\ UNCHANGED <<envVars, nextPid, errexit, ct, attempts, tpid, loopPid,
                   reported, termSent, ticks, restartAttempts, allDied, tick>>
    /\ \E r \in Scans, p \in Probes :
         LET st == inspect_state(pidFile, alive, r, p) IN
         IF st.pid > 0
         THEN IdxStopLoopIter(st.file, r)
         ELSE /\ UNCHANGED <<killSent, acts>>
              /\ IdxStopFinal(alive, st.file, r)

\* stop_server after the loop body's sleep(1, () => void ct++)
IdxStopIdle ==
    /\ variant = "idx" /\ pc = "idx_stop_idle"
    /\ UNCHANGED <<envVars, nextPid, errexit, ct, tpid, loopPid, reported,
                   termSent, ticks, restartAttempts, allDied, tick>>
    /\ attempts' = attempts + 1
    /\ \E r \in Scans :
         IF attempts + 1 < IdxStopAttempts
         THEN IdxStopLoopIter(pidFile, r)
         ELSE IdxStopPostLoop(pidFile, r)

\* stop_server after the sleep(1) of a try_kill(true): a truthy refresh ends
\* the while loop
IdxStopSignalled ==
    /\ variant = "idx" /\ pc = "idx_stop_b"
    /\ UNCHANGED <<envVars, nextPid, errexit, ct, attempts, tpid, loopPid,
                   reported, termSent, ticks, restartAttempts, allDied, tick>>
    /\ \E r \in Scans, p \in Probes :
         LET st == inspect_state(pidFile, alive, r, p) IN
         IF st.pid > 0
         THEN IdxStopPostLoop(st.file, r)
         ELSE /\ pidFile' = st.file /\ Goto("idx_stop_idle")
              /\ UNCHANGED <<alive, killSent, acts, rvOk, lastLog>>

\* restart_server gives up: _ct >= config.max_restarts && !pid
RestartExceededEarly(c, pid) == c >= MAX_RESTARTS - 1 /\ pid = 0
RestartExceeded(c, pid) == c >= MAX_RESTARTS /\ pid = 0

\* restart_server(_ct) up to sleep(2)
IdxRestart ==
    /\ variant = "idx" /\ pc = "idx_restart"
    /\ UNCHANGED <<envVars, alive, nextPid, errexit, ct, attempts, tpid, loopPid,
                   reported, stopObs, restartAttempts, allDied, tick, acts>>
    /\ \E r \in Scans, p \in Probes :
         LET st == inspect_state(pidFile, alive, r, p) IN
         /\ pidFile' = st.file
         /\ IF RestartExceeded(ct, st.pid)
            THEN lastLog' = "max_restarts" /\ rvOk' = FALSE /\ Return
            ELSE IF ct > 0 /\ st.pid > 0 /\ st.health
            THEN lastLog' = "restarted" /\ rvOk' = TRUE /\ Return
            ELSE /\ lastLog' = "attempting_restart" /\ UNCHANGED rvOk
                 /\ IF st.pid > 0
                    THEN CallTo("idx_stop", "idx_restart_b")
                    ELSE Goto("idx_restart_b")

\* restart_server's sleep(2) callback: start_server()
IdxRestartStart ==
    /\ variant = "idx" /\ pc = "idx_restart_b"
    /\ restartAttempts' = restartAttempts + 1
    /\ CallTo("idx_start", "idx_restart_ret")
    /\ attempts' = 0 /\ tpid' = 0 /\ killSent' = 0
    /\ waited' = IF ct > 0 THEN RetryWait + RestartPause ELSE waited
    /\ UNCHANGED <<termSent, ticks>>
    /\ UNCHANGED <<variant, avail, cmd, seen, logs, sig, slept, svc, inv, pidFile,
                   alive, nextPid, errexit, rvOk, ct, loopPid, lastLog,
                   reported, allDied, tick, acts>>

\* restart_server's .then: restart_result.ok(state), or retry_restart(_ct),
\* which sleeps restart_delay and runs restart_server(ct + 1)
IdxRestartRet ==
    /\ variant = "idx" /\ pc = "idx_restart_ret"
    /\ IF rvOk
       THEN /\ lastLog' = "restarted" /\ UNCHANGED <<ct, waited>> /\ Return
       ELSE /\ lastLog' = "restart_failed" /\ ct' = ct + 1
            /\ waited' = RetryWait /\ Goto("idx_restart")
    /\ attempts' = 0 /\ slept' = 0
    /\ UNCHANGED <<variant, avail, cmd, logs, inv, svc, sig, pidFile, alive,
                   nextPid, errexit, rvOk, tpid, loopPid, reported, stopObs,
                   restartAttempts, allDied, tick, acts>>
    /\ seen' = "none"

\* one pass of monitor_server's while loop up to restart_server() or the sleep
IdxMonitorTick ==
    /\ variant = "idx" /\ pc = "idx_monitor"
    /\ UNCHANGED <<variant, avail, cmd, logs, inv, sig, alive, nextPid, errexit,
                   allDied>>
    /\ seen' = "none"
    /\ ct' = 0 /\ acts' = {} /\ restartAttempts' = 0
    /\ rvOk' = TRUE /\ attempts' = 0 /\ tpid' = 0 /\ loopPid' = 0 /\ reported' = 0
    /\ killSent' = 0 /\ slept' = 0 /\ UNCHANGED <<waited, svc>>
    /\ UNCHANGED <<termSent, ticks>>
    /\ \E r \in Scans, p \in Probes :
         LET st == inspect_state(pidFile, alive, r, p) IN
         /\ pidFile' = st.file
         /\ tick' = TickOf(IdxGetPid(pidFile, r), p)
         /\ IF st.health
            THEN lastLog' = "healthy" /\ Goto("idx_monitor")
            ELSE lastLog' = "restarting" /\ CallTo("idx_restart", "idx_monitor_ret")

\* monitor_server after restart_server(): exit(1) on a falsy state
IdxMonitorRet ==
    /\ variant = "idx" /\ pc = "idx_monitor_ret"
    /\ IF ~rvOk THEN Exit(1) ELSE Goto("idx_monitor")
    /\ UNCHANGED <<envVars, pidFile, alive, nextPid, errexit, rvOk, ct, attempts,
                   tpid, loopPid, lastLog, reported, stopObs, restartAttempts,
                   allDied, tick, acts>>

\* ================= the logs command (Node variants) =================

\* a log file is the sequence of its lines; a line is 0 when it is empty and
\* its own position otherwise, so that lines can be told apart
LogFiles(max) ==
    UNION {{f \in [1..len -> 0..len] : \A i \in 1..len : f[i] \in {0, i}} :
             len \in 0..max}

\* cat(file).split('\n').filter(Boolean)
NonEmptyLines(f) == SelectSeq(f, LAMBDA l : l # 0)
\* lines.slice(lines.length - n)
SliceLast(lines, n) == SubSeq(lines, Len(lines) - n + 1, Len(lines))

\* readlines of utils.mjs
IdxReadlines(f, n) ==
    LET lines == NonEmptyLines(f) IN
    IF n # -1 /\ Len(lines) > n + 1 THEN SliceLast(lines, n) ELSE lines
\* readlines of scripts/serve-n8n.mjs
ScrReadlines(f, n) ==
    LET lines == NonEmptyLines(f) IN
    IF Len(lines) > n + 1 THEN SliceLast(lines, n) ELSE lines

\* setup_logging of scripts/serve-n8n.mjs, run before every command: appends
\* an empty line and a header line to a log file
ScrSetupLogging(f) == f \o <<0, Len(f) + 2>>

\* what server_logs prints: the application lines (none: no section), and the
\* error section
Printed(logLines, errLines) ==
    [app |-> logLines, errSection |-> errLines # <<>>, err |-> errLines]

NoLogs == [app |-> <<>>, err |-> <<>>, n |-> 0, out |-> Printed(<<>>, <<>>)]

\* bin/serve.mjs `logs N`: server_logs(N) of index.mjs
IdxServerLogs ==
    /\ variant = "idx" /\ pc = "main" /\ cmd = "logs"
    /\ logs' = [logs EXCEPT !.out = Printed(IdxReadlines(logs.app, logs.n),
                                            IdxReadlines(logs.err, logs.n))]
    /\ Exit(0)
    /\ UNCHANGED <<variant, avail, cmd, seen, sig, slept, waited, svc, inv, pidFile, alive,
                   nextPid,
                   errexit, rvOk, ct, attempts, tpid, loopPid, lastLog, reported,
                   stopObs, restartAttempts, allDied, tick, acts>>

\* scripts/serve-n8n.mjs `logs N`: setup_logging, then server_logs(N)
ScrServerLogs ==
    /\ variant = "scr" /\ pc = "main" /\ cmd = "logs"
    /\ LET app == ScrSetupLogging(logs.app)
           err == ScrSetupLogging(logs.err)
       IN logs' = [logs EXCEPT !.app = app, !.err = err,
                               !.out = Printed(ScrReadlines(app, logs.n),
                                               ScrReadlines(err, logs.n))]
    /\ Exit(0)
    /\ UNCHANGED <<variant, avail, cmd, seen, sig, slept, waited, svc, inv, pidFile, alive,
                   nextPid,
                   errexit, rvOk, ct, attempts, tpid, loopPid, lastLog, reported,
                   stopObs, restartAttempts, allDied, tick, acts>>

\* ================= SIGINT and SIGTERM sent to the supervisor =================

\* serve-n8n.sh: trap cleanup SIGINT SIGTERM.  bash runs the trap once the
\* command it waits for (a sleep) has ended: cleanup calls stop_server, with
\* set -e in effect, and never returns to the interrupted code
ShSignal ==
    /\ variant = "sh" /\ pc # "done"
    /\ sig' = "caught"
    /\ errexit' = ShErrexit("cleanup")
    /\ lastLog' = "cleaning_up"
    /\ pc' = "sh_stop" /\ stack' = <<"sh_cleanup_ret">>
    /\ UNCHANGED <<variant, avail, cmd, seen, logs, inv, slept, waited, svc, pidFile, alive, nextPid,
                   rvOk, ct, attempts, tpid, loopPid, exitCode, reported, stopObs,
                   restartAttempts, allDied, tick, acts>>

\* cleanup after stop_server: exit 0
ShCleanupRet ==
    /\ variant = "sh" /\ pc = "sh_cleanup_ret"
    /\ Exit(0)
    /\ UNCHANGED <<envVars, pidFile, alive, nextPid, errexit, rvOk, ct, attempts,
                   tpid, loopPid, lastLog, reported, stopObs, restartAttempts,
                   allDied, tick, acts>>

\* signal numbers of SIGINT and SIGTERM
Signals == {2, 15}

\* index.mjs: before initialize_handlers has run the signal ends the process
\* (exit code 128 + signal); after it, the handler runs set_pid(null) and, a
\* listener being installed, the process goes on
IdxSignal ==
    /\ variant = "idx" /\ pc # "done"
    /\ IF sig = "default"
       THEN /\ \E s \in Signals : Exit(128 + s)
            /\ sig' = "killed"
            /\ UNCHANGED pidFile
       ELSE /\ sig' = "caught"
            /\ pidFile' = Absent
            /\ UNCHANGED <<pc, stack, exitCode>>
    /\ UNCHANGED <<variant, avail, cmd, seen, logs, inv, slept, waited, svc, alive, nextPid, errexit,
                   rvOk, ct, attempts, tpid, loopPid, lastLog, reported, stopObs,
                   restartAttempts, allDied, tick, acts>>

\* ================= environment =================

\* a child exits (by itself, or in reaction to a SIGTERM it received)
ChildDies ==
    /\ \E p \in alive : alive' = alive \ {p}
    /\ UNCHANGED <<envVars, pidFile, nextPid, pc, stack, errexit, rvOk, ct,
                   attempts, tpid, loopPid, exitCode, lastLog, reported, stopObs,
                   restartAttempts, allDied, tick, acts>>

\* what earlier invocations may have left: nothing, a recorded live child, or
\* the record of a child that has died since
InitWorld ==
    /\ nextPid = 2
    /\ \/ pidFile = Absent /\ alive = {}
       \/ pidFile \in Earlier /\ alive = {pidFile}
       \/ pidFile \in Earlier /\ alive = {}

\* the state the run of a command starts from
InitCommand ==
    /\ pc = "main" /\ stack = <<>>
    /\ errexit = TRUE /\ rvOk = TRUE /\ ct = 0 /\ attempts = 0
    /\ tpid = 0 /\ loopPid = 0 /\ exitCode = -1 /\ lastLog = "none" /\ reported = 0
    /\ termSent = 0 /\ killSent = 0 /\ ticks = 0
    /\ restartAttempts = 0 /\ allDied = TRUE /\ tick = "none" /\ acts = {}
    /\ seen = "none" /\ slept = 0 /\ waited = 0
    \* serve-n8n.sh sets its trap before main; the Node variants start with
    \* the default action
    /\ sig = IF variant = "sh" THEN "armed" ELSE "default"

Init ==
    /\ variant \in Variants
    /\ avail \in SearchPaths
    /\ InitWorld
    /\ cmd \in Commands
    /\ InitCommand
    /\ logs = NoLogs
    /\ inv = NoInv
    /\ svc = NoSvc

Next ==
    \/ ChildDies
    \/ ShMain
    \/ ShMainRet
    \/ ShRestartMid
    \/ ShMonitorEntry
    \/ ShMonitorTick
    \/ ShMonitorRet
    \/ ShStartSpawn
    \/ ShStartGrace
    \/ ShStartTick
    \/ ShHealthCheckHangs
    \/ ShStopTerm
    \/ ShStopTick
    \/ ScrMain
    \/ ScrMainRet
    \/ ScrRestartMid
    \/ ScrStartSpawn
    \/ ScrStartWait
    \/ ScrStop
    \/ ScrMonitorTick
    \/ ScrMonitorRet
    \/ IdxMain
    \/ IdxMainRet
    \/ IdxStartCheck
    \/ IdxStartSpawn
    \/ IdxStartWait
    \/ IdxStopTerm
    \/ IdxStopFirst
    \/ IdxStopIdle
    \/ IdxStopSignalled
    \/ IdxRestart
    \/ IdxRestartStart
    \/ IdxRestartRet
    \/ IdxMonitorTick
    \/ IdxMonitorRet

Spec == Init /\ [][Next]_vars


\* ================= monitoring by server/src/index.mjs alone =================

\* the steps of the supervisor itself, which the event loop keeps running
IdxStep ==
    \/ IdxMain
    \/ IdxStartCheck
    \/ IdxStartSpawn
    \/ IdxStartWait
    \/ IdxStopTerm
    \/ IdxStopFirst
    \/ IdxStopIdle
    \/ IdxStopSignalled
    \/ IdxRestart
    \/ IdxRestartStart
    \/ IdxRestartRet
    \/ IdxMonitorTick
    \/ IdxMonitorRet

\* no launcher is installed: the shell spawned for one exits at once, so every
\* child is dead at its grace check
IdxMonitorInit == Init /\ variant = "idx" /\ cmd = "monitor" /\ avail = {}
IdxMonitorNext == IdxStep \/ ChildDies
\* every timer the supervisor sets fires; children need never die
IdxMonitorSpec ==
    IdxMonitorInit /\ [][IdxMonitorNext]_vars /\ WF_vars(IdxStep)

\* ================= monitoring, every launcher installed =================

\* the steps of serve-n8n.sh monitor
ShMonitorStep ==
    \/ ShMain
    \/ ShMonitorEntry
    \/ ShMonitorTick
    \/ ShMonitorRet
    \/ ShStartSpawn
    \/ ShStartGrace
    \/ ShStartTick
    \/ ShHealthCheckHangs

MonitorInit ==
    /\ Init /\ variant \in {"sh", "idx"} /\ cmd = "monitor"
    /\ avail = {"bun", "npx", "npm"}
MonitorNext == ShMonitorStep \/ IdxStep \/ ChildDies
\* every sleep of the supervisor ends; children need never die
MonitorSpec ==
    MonitorInit /\ [][MonitorNext]_vars /\ WF_vars(ShMonitorStep \/ IdxStep)

\* ================= the start command alone =================

\* timings.startup_timeout of index.mjs, in seconds
startup_timeout == 60

\* the steps an invocation of start takes: main, start_server, and the
\* stop_server that start_server of index.mjs calls on an unresponsive process
StartStep ==
    \/ ShMain
    \/ ShMainRet
    \/ ShStartSpawn
    \/ ShStartGrace
    \/ ShStartTick
    \/ ShHealthCheckHangs
    \/ ScrMain
    \/ ScrMainRet
    \/ ScrStartSpawn
    \/ ScrStartWait
    \/ IdxMain
    \/ IdxMainRet
    \/ IdxStartCheck
    \/ IdxStartSpawn
    \/ IdxStartWait
    \/ IdxStopTerm
    \/ IdxStopFirst
    \/ IdxStopIdle
    \/ IdxStopSignalled

StartInit == Init /\ cmd = "start"
StartNext == StartStep \/ ChildDies
\* every sleep of the supervisor ends; children need never die
StartSpec == StartInit /\ [][StartNext]_vars /\ WF_vars(StartStep)

\* ================= a command run on a malformed pid file =================

\* records that do not hold a pid: empty or blank text, text that is no number
Malformed == {Blank, Garbage}

\* the pid file is malformed; a process of an earlier invocation may be alive
RecordInit ==
    /\ variant \in Variants
    /\ avail \in SearchPaths
    /\ nextPid = 2
    /\ pidFile \in Malformed
    /\ alive \in SUBSET Earlier
    /\ cmd \in Commands
    /\ InitCommand
    /\ logs = NoLogs
    /\ inv = NoInv
    /\ svc = NoSvc
\* every step of the three supervisors but the wait of serve-n8n.sh's
\* stop_server for a process it has signalled
RecordNext ==
    \/ ChildDies
    \/ ShMonitorStep
    \/ ShMainRet
    \/ ShRestartMid
    \/ ShStopTerm
    \/ ScrMain
    \/ ScrMainRet
    \/ ScrRestartMid
    \/ ScrStartSpawn
    \/ ScrStartWait
    \/ ScrStop
    \/ ScrMonitorTick
    \/ ScrMonitorRet
    \/ IdxStep
    \/ IdxMainRet
RecordSpec == RecordInit /\ [][RecordNext]_vars

\* ================= set_pid alone (Node variants) =================

\* bound on the calls of set_pid in a row
MaxCalls == 6

\* safe_rm of utils.mjs: existsSync(file) && rmSync(file)
safe_rm(pf) == IF pf # Absent THEN Absent ELSE pf
\* set_pid of index.mjs: null (0) removes the file, a pid overwrites it
IdxSetPid(pf, pid) == IF pid = 0 THEN safe_rm(pf) ELSE pid

\* any pid file, and no process
SetPidInit ==
    /\ variant \in {"idx", "scr"}
    /\ avail = {}
    /\ nextPid = 2 /\ alive = {}
    /\ pidFile \in {Absent} \cup Malformed \cup (1..MaxSpawn)
    /\ cmd = "set_pid"
    /\ InitCommand
    /\ logs = NoLogs
    /\ inv = NoInv
    /\ svc = NoSvc

\* a call set_pid(pid); ct counts the calls set_pid(null) made in a row
IdxSetPidCall ==
    /\ variant = "idx" /\ cmd = "set_pid" /\ attempts < MaxCalls
    /\ \E pid \in 0..MaxSpawn :
         /\ pidFile' = IdxSetPid(pidFile, pid)
         /\ ct' = IF pid = 0 THEN ct + 1 ELSE 0
    /\ attempts' = attempts + 1
    /\ UNCHANGED <<envVars, alive, nextPid, pc, stack, errexit, rvOk, tpid,
                   loopPid, exitCode, lastLog, reported, stopObs,
                   restartAttempts, allDied, tick, acts>>

ScrSetPidCall ==
    /\ variant = "scr" /\ cmd = "set_pid" /\ attempts < MaxCalls
    /\ \E pid \in 0..MaxSpawn :
         /\ pidFile' = ScrSetPid(pid)
         /\ ct' = IF pid = 0 THEN ct + 1 ELSE 0
    /\ attempts' = attempts + 1
    /\ UNCHANGED <<envVars, alive, nextPid, pc, stack, errexit, rvOk, tpid,
                   loopPid, exitCode, lastLog, reported, stopObs,
                   restartAttempts, allDied, tick, acts>>

SetPidNext == IdxSetPidCall \/ ScrSetPidCall
SetPidSpec == SetPidInit /\ [][SetPidNext]_vars

\* ================= scripts/service.ps1: poll and monitor =================

\* bounds on the -count argument and on the passes counted
MaxCount == 6
MaxRuns == 8

\* $shouldcontinue: { $script:current -le $count } for a positive -count,
\* { $true } otherwise
shouldcontinue(count, current) == IF count > 0 THEN current <= count ELSE TRUE
\* $beforecontinue: { $script:current += 1 } for a positive -count, { } otherwise
beforecontinue(count, current) == IF count > 0 THEN current + 1 ELSE current

\* service.ps1 poll|monitor -count N, $script:current being 0
PollInit ==
    /\ variant = "ps1"
    /\ avail = {}
    /\ nextPid = 2 /\ alive = {} /\ pidFile = Absent
    /\ cmd \in {"poll", "monitor"}
    /\ InitCommand
    /\ logs = NoLogs
    /\ inv = NoInv
    /\ \E n \in -1..MaxCount : svc = [count |-> n, current |-> 0, runs |-> 0]

\* the switch on $action
PsMain ==
    /\ variant = "ps1" /\ pc = "main"
    /\ Goto("ps_test")
    /\ UNCHANGED <<envVars, pidFile, alive, nextPid, errexit, rvOk, ct, attempts,
                   tpid, loopPid, lastLog, reported, stopObs, restartAttempts,
                   allDied, tick, acts>>

\* while (&$shouldcontinue): into the body, or past the loop and out
PsLoopTest ==
    /\ variant = "ps1" /\ pc = "ps_test"
    /\ IF shouldcontinue(svc.count, svc.current) THEN Goto("ps_body") ELSE Exit(0)
    /\ UNCHANGED <<envVars, pidFile, alive, nextPid, errexit, rvOk, ct, attempts,
                   tpid, loopPid, lastLog, reported, stopObs, restartAttempts,
                   allDied, tick, acts>>

\* one pass of the body of poll: get-n8n, start-sleep, &$beforecontinue
PsPollBody ==
    /\ variant = "ps1" /\ cmd = "poll" /\ pc = "ps_body"
    /\ svc' = [svc EXCEPT !.current = beforecontinue(svc.count, svc.current),
                          !.runs = IF @ < MaxRuns THEN @ + 1 ELSE @]
    /\ lastLog' = "polled"
    /\ Goto("ps_test")
    /\ UNCHANGED <<variant, avail, cmd, seen, logs, sig, slept, waited, inv,
                   pidFile, alive, nextPid, errexit, rvOk, ct, attempts, tpid,
                   loopPid, reported, stopObs, restartAttempts, allDied, tick,
                   acts>>

\* one pass of the body of monitor: get-n8n, the reload when nothing is
\* detected, start-sleep, &$beforecontinue
PsMonitorBody ==
    /\ variant = "ps1" /\ cmd = "monitor" /\ pc = "ps_body"
    /\ svc' = [svc EXCEPT !.current = beforecontinue(svc.count, svc.current),
                          !.runs = IF @ < MaxRuns THEN @ + 1 ELSE @]
    /\ \E running \in BOOLEAN :
         lastLog' = IF running THEN "detected" ELSE "attempting_reload"
    /\ Goto("ps_test")
    /\ UNCHANGED <<variant, avail, cmd, seen, logs, sig, slept, waited, inv,
                   pidFile, alive, nextPid, errexit, rvOk, ct, attempts, tpid,
                   loopPid, reported, stopObs, restartAttempts, allDied, tick,
                   acts>>

PollNext == PsMain \/ PsLoopTest \/ PsPollBody \/ PsMonitorBody
PollSpec == PollInit /\ [][PollNext]_vars

\* ================= the supervisor under signals =================

SignalNext == Next \/ ShSignal \/ ShCleanupRet \/ IdxSignal
SignalSpec == Init /\ [][SignalNext]_vars

\* ================= the logs command alone =================

\* bounds on the log files and on N
MaxLines == 4
MaxN == 4

LogsInit ==
    /\ variant \in {"idx", "scr"}
    /\ avail = {}
    /\ pidFile = Absent /\ alive = {} /\ nextPid = 2
    /\ cmd = "logs"
    /\ InitCommand
    /\ inv = NoInv
    /\ svc = NoSvc
    /\ \E app \in LogFiles(MaxLines), err \in LogFiles(MaxLines), n \in 0..MaxN :
         logs = [app |-> app, err |-> err, n |-> n, out |-> Printed(<<>>, <<>>)]
LogsNext == IdxServerLogs \/ ScrServerLogs
LogsSpec == LogsInit /\ [][LogsNext]_vars

\* ================= invocations sharing the pid file =================

\* the variables of the single invocation modelled above
cmdVars == <<avail, cmd, pc, stack, errexit, rvOk, ct, attempts, tpid, loopPid,
             exitCode, lastLog, reported, termSent, killSent, ticks,
             restartAttempts, allDied, tick, acts, seen, sig, logs, slept, waited, svc>>

\* invocation i moves on with record r
Moves(i, r) == inv' = [inv EXCEPT ![i] = r]
\* invocation i unlinks the pid file and moves on with record r: a descriptor
\* another invocation holds open on the file now refers to no name
Unlinks(i, r) ==
    inv' = [j \in Invocations |->
              IF j = i THEN r
              ELSE IF inv[j].fd = "open" THEN [inv[j] EXCEPT !.fd = "orphan"]
              ELSE inv[j]]

\* some other invocation has truncated the pid file and not yet written the
\* pid it holds
WriteInProgress(i) ==
    \E j \in Invocations \ {i} :
        inv[j].pc \in {"write", "scan_write"} /\ inv[j].fd = "open" /\ inv[j].pid > 0
\* what a read of the pid file by invocation i observes
Observed(i) ==
    IF pidFile = Absent THEN "absent"
    ELSE IF pidFile > 0 THEN "pid"
    ELSE IF WriteInProgress(i) THEN "torn" ELSE "blank"
\* where an invocation goes once it knows that nothing is running
AfterDown(op) == IF op = "start" THEN "spawn" ELSE "idle"

\* is_running: [ -f "${PID_FILE}" ]
ShIsRunningTest(i) ==
    /\ variant = "sh" /\ inv[i].pc = "begin"
    /\ Moves(i, [inv[i] EXCEPT !.pc = IF pidFile = Absent THEN AfterDown(inv[i].op)
                                      ELSE "read"])
    /\ UNCHANGED <<variant, cmdVars, pidFile, alive, nextPid>>

\* is_running: local pid=$(cat "${PID_FILE}")
ShIsRunningCat(i) ==
    /\ variant = "sh" /\ inv[i].pc = "read"
    /\ Moves(i, [inv[i] EXCEPT !.pc = "probe",
                               !.pid = IF pidFile > 0 THEN pidFile ELSE 0,
                               !.saw = Observed(i)])
    /\ UNCHANGED <<variant, cmdVars, pidFile, alive, nextPid>>

\* is_running: kill -0 "${pid}"
ShIsRunningKill(i) ==
    /\ variant = "sh" /\ inv[i].pc = "probe"
    /\ Moves(i, [inv[i] EXCEPT !.pc = IF inv[i].pid > 0 /\ inv[i].pid \in alive
                                      THEN "idle" ELSE "heal"])
    /\ UNCHANGED <<variant, cmdVars, pidFile, alive, nextPid>>

\* is_running: rm -f "${PID_FILE}", then main's else branch (start_server)
ShIsRunningRm(i) ==
    /\ variant = "sh" /\ inv[i].pc = "heal"
    /\ pidFile' = Absent
    /\ Unlinks(i, [inv[i] EXCEPT !.pc = AfterDown(inv[i].op)])
    /\ UNCHANGED <<variant, cmdVars, alive, nextPid>>

\* start_server: nohup ${start_command} ... &; local pid=$!
ShSpawn(i) ==
    /\ variant = "sh" /\ inv[i].pc = "spawn"
    /\ alive' = alive \cup {nextPid}
    /\ nextPid' = nextPid + 1
    /\ Moves(i, [inv[i] EXCEPT !.pc = "open", !.pid = nextPid])
    /\ UNCHANGED <<variant, cmdVars, pidFile>>

\* a write of the whole pid file begins: the redirection of echo "${pid}" >
\* "${PID_FILE}", or writeFileSync of overwrite, opens the file truncating it
PidFileOpen(i) ==
    /\ inv[i].pc \in {"open", "scan_open"}
    /\ pidFile' = Blank
    /\ Moves(i, [inv[i] EXCEPT !.pc = IF inv[i].pc = "open" THEN "write"
                                      ELSE "scan_write",
                               !.fd = "open"])
    /\ UNCHANGED <<variant, cmdVars, alive, nextPid>>

\* the write ends: the text goes to the file the descriptor refers to, which
\* is the pid file unless that was unlinked since; start_server goes on to its
\* sleep, get_pid to kill(pid, 0)
PidFileWrite(i) ==
    /\ inv[i].pc \in {"write", "scan_write"}
    /\ pidFile' = IF inv[i].fd # "open" THEN pidFile
                  ELSE IF inv[i].pid > 0 THEN inv[i].pid ELSE Blank
    /\ Moves(i, [inv[i] EXCEPT !.pc = IF inv[i].pc = "write" THEN "idle"
                                      ELSE "probe",
                               !.fd = "none"])
    /\ UNCHANGED <<variant, cmdVars, alive, nextPid>>

\* get_pid: cat(file.pid)
IdxGetPidCat(i) ==
    /\ variant = "idx" /\ inv[i].pc = "begin"
    /\ Moves(i, [inv[i] EXCEPT !.pc = IF pidFile > 0 THEN "probe" ELSE "scan",
                               !.pid = IF pidFile > 0 THEN pidFile ELSE 0,
                               !.saw = Observed(i)])
    /\ UNCHANGED <<variant, cmdVars, pidFile, alive, nextPid>>

\* get_pid on an empty read: run(command()).output, then set_pid(pid || null)
IdxGetPidScan(i) ==
    /\ variant = "idx" /\ inv[i].pc = "scan"
    /\ \E r \in Scans : Moves(i, [inv[i] EXCEPT !.pc = "scan_open", !.pid = r])
    /\ UNCHANGED <<variant, cmdVars, pidFile, alive, nextPid>>

\* inspect_state from send_signal(pid, 0) on, and what its caller does with
\* the result: server_status goes to set_pid(null) on no pid; start_server
\* returns on health, calls stop_server on a pid without health, and spawns
IdxInspect(i) ==
    /\ variant = "idx" /\ inv[i].pc = "probe"
    /\ \E p \in Probes :
         LET up == inv[i].pid > 0 /\ inv[i].pid \in alive /\ p # "err"
             health == up /\ p = "ok"
         IN Moves(i, [inv[i] EXCEPT !.pc =
                IF inv[i].op = "check" THEN (IF up THEN "idle" ELSE "heal")
                ELSE IF health THEN "idle"
                ELSE IF up THEN "stop" ELSE "spawn"])
    /\ UNCHANGED <<variant, cmdVars, pidFile, alive, nextPid>>

\* server_status: set_pid(null), that is safe_rm(file.pid)
IdxStatusRm(i) ==
    /\ variant = "idx" /\ inv[i].pc = "heal"
    /\ pidFile' = Absent
    /\ Unlinks(i, [inv[i] EXCEPT !.pc = "idle"])
    /\ UNCHANGED <<variant, cmdVars, alive, nextPid>>

\* start_server: await stop_server(), run to its end on the pid inspect_state
\* gave: the process dies of its signals and the pid file is removed, or it
\* does not and stop_server returns 'could not kill'; start_server spawns in
\* both cases
IdxStartStop(i) ==
    /\ variant = "idx" /\ inv[i].pc = "stop"
    /\ \E dies \in BOOLEAN :
         IF dies
         THEN /\ alive' = alive \ {inv[i].pid} /\ pidFile' = Absent
              /\ Unlinks(i, [inv[i] EXCEPT !.pc = "spawn"])
         ELSE /\ UNCHANGED <<alive, pidFile>>
              /\ Moves(i, [inv[i] EXCEPT !.pc = "spawn"])
    /\ UNCHANGED <<variant, cmdVars, nextPid>>

\* start_server: proc = serve('bun'), then set_pid(proc.pid)
IdxSpawn(i) ==
    /\ variant = "idx" /\ inv[i].pc = "spawn"
    /\ alive' = alive \cup {nextPid}
    /\ nextPid' = nextPid + 1
    /\ Moves(i, [inv[i] EXCEPT !.pc = "open", !.pid = nextPid])
    /\ UNCHANGED <<variant, cmdVars, pidFile>>

\* two invocations of serve-n8n.sh, or of bin/serve.mjs, begin side by side;
\* no process is alive, the pid file is missing or records a dead process, and
\* every launcher is installed
ConcInit ==
    /\ variant \in {"sh", "idx"}
    /\ avail = {"bun", "npx", "npm"}
    /\ nextPid = 2 /\ alive = {}
    /\ pidFile \in {Absent} \cup Earlier
    /\ cmd = "start"
    /\ InitCommand
    /\ logs = NoLogs
    /\ svc = NoSvc
    /\ \E ops \in [Invocations -> Ops] :
         inv = [i \in Invocations |-> [IdleInv EXCEPT !.op = ops[i], !.pc = "begin"]]
ConcNext ==
    \E i \in Invocations :
        \/ ShIsRunningTest(i)
        \/ ShIsRunningCat(i)
        \/ ShIsRunningKill(i)
        \/ ShIsRunningRm(i)
        \/ ShSpawn(i)
        \/ PidFileOpen(i)
        \/ PidFileWrite(i)
        \/ IdxGetPidCat(i)
        \/ IdxGetPidScan(i)
        \/ IdxInspect(i)
        \/ IdxStatusRm(i)
        \/ IdxStartStop(i)
        \/ IdxSpawn(i)
ConcSpec == ConcInit /\ [][ConcNext]_vars

\* ================= properties =================

\* the step is one of the supervisor (a child dying leaves pc alone)
SupervisorStep == pc' # pc

\* the monitor of the named variant has exited after start attempts whose
\* children were all dead at the grace check, a launcher being available
MonitorGaveUp(v) ==
    /\ variant = v /\ cmd = "monitor" /\ pc = "done"
    /\ allDied /\ nextPid > 2

\* C1: serve-n8n.sh monitor, every child dying before its grace check: once
\* monitor_server has begun to restart, the script exits only after exactly
\* MAX_RESTARTS restart attempts, and with a nonzero code
C1_ShMonitorRestartBound ==
    (MonitorGaveUp("sh") /\ detect_runtime # "none" /\ restartAttempts > 0)
        => (restartAttempts = MAX_RESTARTS /\ exitCode > 0)

\* C2: index.mjs monitor, every child dying before its grace check: a chain
\* of restart_server calls makes at most max_restarts start attempts, the
\* process exits only after exactly max_restarts of them, having logged
\* 'maximum restart attempts exceeded', with code 1, and a chain begun on a
\* dead process always gets there
C2_IdxMonitorRestartBound ==
    /\ [](allDied => restartAttempts <= MAX_RESTARTS)
    /\ [](MonitorGaveUp("idx") =>
            /\ restartAttempts = MAX_RESTARTS
            /\ lastLog = "max_restarts"
            /\ exitCode = 1)
    /\ (pc = "idx_restart" /\ tick = "dead")
          ~> (pc = "done" \/ ~allDied \/ ~CanSpawn)
C2_Witness ==
    /\ MonitorGaveUp("idx") /\ exitCode = 1
    /\ restartAttempts = MAX_RESTARTS /\ lastLog = "max_restarts"

\* a step that runs the check start makes before it spawns, on a recorded pid
\* whose process is alive: the `start` command of serve-n8n.sh, start_server
\* of the two Node variants
StartOnTracked ==
    /\ pidFile > 0 /\ pidFile \in alive
    /\ \/ variant = "sh" /\ pc = "main" /\ cmd = "start"
       \/ variant = "idx" /\ pc = "idx_start"
       \/ variant = "scr" /\ pc = "scr_start"

\* C3: start on a tracked process that is alive and (index.mjs, the one
\* variant whose start probes) answers the health probe: no spawn, no signal,
\* the pid file unchanged, the existing pid reported
C3_StartIdempotent ==
    [][(StartOnTracked /\ SupervisorStep /\ (variant = "idx" => seen' = "healthy"))
         => /\ alive' = alive /\ nextPid' = nextPid /\ acts' = acts
            /\ pidFile' = pidFile
            /\ lastLog' = "already_running"
            /\ reported' = pidFile]_vars
C3_Witness ==
    /\ cmd = "start" /\ pc = "done" /\ variant = "idx" /\ seen = "healthy"
    /\ lastLog = "already_running" /\ reported = pidFile /\ reported \in alive
    /\ acts = {} /\ exitCode = 0

\* the latest pass of the monitor loop found the tracked process alive and the
\* health probe failing
UnhealthyTick(v) == variant = v /\ cmd = "monitor" /\ tick = "unhealthy"

StopEndedOnStubborn(v) ==
    /\ variant = v /\ cmd = "stop" /\ pc = "done"
    /\ termSent > 0
    /\ tpid \in alive \/ killSent > 0

\* C5: serve-n8n.sh stop_server on a process that ignores SIGTERM: one
\* SIGTERM, a liveness poll after each of 10 one-second sleeps, and at most
\* one SIGKILL, sent only once those 10 sleeps have elapsed
C5_ShStopEscalation ==
    /\ variant = "sh" /\ killSent > 0 => killSent = 1 /\ ticks = ShStopAttempts
    /\ StopEndedOnStubborn("sh") => termSent = 1 /\ ticks = ShStopAttempts

\* C6: index.mjs stop_server sends at most one SIGKILL, and only when its
\* while loop has counted all 10 of its one-second sleeps
C6_IdxStopEscalation ==
    variant = "idx" /\ killSent > 0 => killSent = 1 /\ attempts = IdxStopAttempts

\* a step that begins with a liveness check, taken while the pid file records
\* a process that is not alive
CheckOnStale ==
    /\ pidFile > 0 /\ pidFile \notin alive
    /\ pc \in {"sh_stop", "sh_monitor", "idx_stop", "idx_monitor", "scr_stop",
               "scr_monitor"}

\* C7: a liveness check that finds the recorded pid dead has removed the pid
\* file when it returns, in all three variants
C7_SelfHealingTracker ==
    [][CheckOnStale /\ SupervisorStep => pidFile' = Absent]_vars

\* `start` has ended where no launcher is installed and no live process was
\* tracked
NoRuntimeStartEnded(v) ==
    /\ variant = v /\ cmd = "start" /\ pc = "done"
    /\ avail = {} /\ lastLog # "already_running"

\* C8: start with no launcher available (serve-n8n.sh, index.mjs) fails with
\* the no-runtime error, spawns nothing and leaves no pid file
C8_NoRuntimeStart ==
    \A v \in {"sh", "idx"} :
        NoRuntimeStartEnded(v) =>
            /\ lastLog = "no_runtime"
            /\ "spawn" \notin acts
            /\ pidFile = Absent

\* C9: an invocation exits nonzero exactly when start found no runtime or the
\* monitor exceeded max_restarts
C9_ExitCode ==
    pc = "done" => (exitCode # 0 <=> lastLog \in {"no_runtime", "max_restarts"})

\* `start` has ended with its child alive and recorded, the child having been
\* alive at the grace check and the polling loop not having seen it ready
StartEndedUnready ==
    /\ cmd = "start" /\ pc = "done"
    /\ pidFile > 0 /\ pidFile \in alive /\ "spawn" \in acts
    /\ lastLog \notin {"ready", "start_failed"}

\* C10: a start whose child stays alive while no probe succeeds logs the
\* health warning and returns success, and the invocation succeeds
C10_ReadinessTimeoutSucceeds ==
    /\ StartEndedUnready =>
           lastLog = "health_timeout_warn" /\ rvOk /\ exitCode = 0
    /\ lastLog = "health_timeout_warn" => rvOk

\* `stop` has ended having sent SIGKILL to a process that is alive still
StopEndedOnUnkillable(v) ==
    /\ variant = v /\ cmd = "stop" /\ pc = "done"
    /\ killSent > 0 /\ tpid \in alive

\* C11: stop_server of serve-n8n.sh and of index.mjs, the process being alive
\* still after the SIGKILL: the pid file is removed all the same
C11_UnkillableStopClearsRecord ==
    \A v \in {"sh", "idx"} : StopEndedOnUnkillable(v) => pidFile = Absent

\* the monitor loop has found the process dead, no child is alive, fewer than
\* max_restarts start attempts have failed in a row, and the next child is to
\* get pid n
MonitorRestarting(n) ==
    /\ variant \in {"sh", "idx"} /\ cmd = "monitor"
    /\ tick = "dead" /\ alive = {}
    /\ ct < MAX_RESTARTS
    /\ nextPid = n

\* C12: serve-n8n.sh and index.mjs monitor, every launcher installed: once the
\* monitor has found the process dead, and as long as fewer than max_restarts
\* start attempts have failed in a row, a new child is eventually spawned
\* (the model's bound on children permitting)
C12_AutoRestart ==
    \A n \in 2..MaxSpawn :
        MonitorRestarting(n) ~> (nextPid > n \/ ~CanSpawn)

\* serve-n8n.sh has exited after a signal whose cleanup found a live tracked
\* child (stop_server sent it a SIGTERM)
ShExitedOnSignal ==
    /\ variant = "sh" /\ sig = "caught" /\ pc = "done"
    /\ termSent > 0

\* a step of a supervisor that has caught a signal removes the record of a
\* live child
ClearsLiveRecord ==
    /\ variant \in {"sh", "idx"} /\ sig' = "caught"
    /\ pidFile > 0 /\ pidFile \in alive
    /\ pidFile' = Absent

\* C13: a supervisor that receives SIGINT or SIGTERM while it manages a live
\* child has stopped the child and removed the pid file when it exits
\* (serve-n8n.sh), and never removes the pid file of a child it leaves running
\* (serve-n8n.sh, index.mjs)
C13_GracefulShutdown ==
    /\ [](ShExitedOnSignal => pidFile = Absent /\ tpid \notin alive)
    /\ [][ClearsLiveRecord => pidFile \notin alive']_vars

\* the first of bun, npx, npm that is on the search path
FirstInOrder(av) ==
    IF "bun" \in av THEN "bun"
    ELSE IF "npx" \in av THEN "npx"
    ELSE IF "npm" \in av THEN "npm" ELSE "none"

\* the launcher start_server of the variant spawns the child with
LauncherOf(v) == IF v = "sh" THEN detect_runtime ELSE IdxLauncher

\* C14: where a launcher is available, a child that start_server of
\* serve-n8n.sh or of index.mjs has spawned was launched with the first
\* available of bun, npx, npm; the no-runtime error is given only when none of
\* them is available
C14_RuntimeSelectionOrder ==
    \A v \in {"sh", "idx"} :
        variant = v =>
            /\ "spawn" \in acts /\ avail # {} =>
                   LauncherOf(v) = FirstInOrder(avail)
            /\ lastLog = "no_runtime" => avail = {}

\* the last min(Len(lines), n) of the lines, in order
LastLines(lines, n) ==
    LET k == IF Len(lines) < n THEN Len(lines) ELSE n
    IN SubSeq(lines, Len(lines) - k + 1, Len(lines))

\* the `logs` command has run
LogsShown == cmd = "logs" /\ pc = "done"

\* C15: `logs N` of the Node variants prints exactly the last min(L, N)
\* non-empty lines of the application log, in order, and prints the error
\* section exactly when the error log has a non-empty line, with its last
\* min(length, N) lines
C15_LogsLastLines ==
    LogsShown =>
        /\ logs.out.app = LastLines(NonEmptyLines(logs.app), logs.n)
        /\ logs.out.errSection <=> NonEmptyLines(logs.err) # <<>>
        /\ logs.out.errSection =>
               logs.out.err = LastLines(NonEmptyLines(logs.err), logs.n)

\* a step of start_server that probes for readiness while its child is alive:
\* the pass made after the grace period, or a pass of the polling loop below
\* the attempt bound
StartPolls(v, child, bound) ==
    /\ variant = v /\ child > 0 /\ child \in alive
    /\ \/ pc = v \o "_grace" /\ pc' # pc
       \/ pc = v \o "_tick" /\ attempts' = attempts + 1 /\ attempts' < bound
\* the step goes on polling, or start_server returns success
PollsOnOrReady(v) ==
    \/ pc' = v \o "_tick"
    \/ lastLog' = "ready" /\ rvOk'

\* C16: start_server of serve-n8n.sh and of index.mjs, the child staying
\* alive: the polling goes on through every failed probe below the attempt
\* bound, and a start that reports readiness after k failed probes has slept
\* the grace period and k tick intervals
C16_StartupWait ==
    /\ [][StartPolls("sh", tpid, ShMaxAttempts) => PollsOnOrReady("sh")]_vars
    /\ [][StartPolls("idx", pidFile, IdxMaxAttempts) => PollsOnOrReady("idx")]_vars
    /\ [](variant = "sh" /\ lastLog = "ready" =>
              slept = ShGrace + attempts * ShTick)
    /\ [](variant = "idx" /\ lastLog = "ready" =>
              slept = IdxGrace + attempts * IdxTick)

\* start_server of index.mjs is about to spawn, its state check having found
\* the recorded process alive with the probe failing
SpawnsOnUnhealthy == variant = "idx" /\ pc = "idx_spawn" /\ seen = "unhealthy"

\* C17: index.mjs: start_server on a process that is alive and unhealthy has
\* run stop_server to its end when it spawns, and at no moment is more than
\* one child alive
C17_SingleChild ==
    /\ SpawnsOnUnhealthy => lastLog \in {"stopped", "could_not_kill", "not_running"}
    /\ variant = "idx" => Cardinality(alive) <= 1

\* start_server has just reported that its child was dead at the grace check
\* or died during the polling loop, and the recorded process is not alive
StartupFailed ==
    /\ lastLog \in {"start_failed", "died_during_startup"}
    /\ ~(pidFile > 0 /\ pidFile \in alive)

\* C18: a start_server that fails because its child is dead (at the grace
\* check or during the polling loop) returns failure with the pid file removed,
\* in all three variants
C18_StartupFailureClearsRecord ==
    StartupFailed =>
        /\ pidFile = Absent
        /\ variant # "scr" => ~rvOk

\* the `stop` command has ended, having sent SIGTERM to a process that is
\* alive still
StopEndedOnSurvivor(v) ==
    /\ variant = v /\ cmd = "stop" /\ pc = "done"
    /\ "term" \in acts /\ tpid > 0 /\ tpid \in alive

\* C19: in all three variants a stop that ends while the process it sent
\* SIGTERM to is alive still has sent it a SIGKILL
C19_EscalationHappens ==
    \A v \in Variants : StopEndedOnSurvivor(v) => killSent > 0

\* stop_server's latest report is 'stopped successfully', for the process
\* tpid it sent its signals to
StopReportedSuccess(v) == variant = v /\ lastLog = "stopped" /\ tpid > 0

\* C20: in all three variants stop_server reports 'stopped successfully', and
\* removes the pid file, only for a process that is not alive
C20_StopSuccessOnlyForDead ==
    \A v \in Variants :
        StopReportedSuccess(v) => tpid \notin alive /\ pidFile = Absent

\* the `restart` command has ended
RestartEnded(v) == variant = v /\ cmd = "restart" /\ pc = "done"

\* a step of the `restart` command that spawns a child
RestartSpawns == cmd = "restart" /\ nextPid' > nextPid

\* C21: the restart command of each variant is one stop_server followed by
\* one start_server: it never makes a second start attempt, it has made one
\* when it ends, it spawns only once its stop_server has returned, and in
\* serve-n8n.sh and index.mjs a failed start is returned to main as a failure
C21_RestartIsStopThenStart ==
    /\ [](cmd = "restart" => restartAttempts <= 1)
    /\ [](\A v \in Variants : RestartEnded(v) => restartAttempts = 1)
    /\ [][RestartSpawns => restartAttempts >= 1]_vars
    /\ [](cmd = "restart" /\ pc \in {"sh_main_ret", "idx_main_ret"}
            /\ lastLog \in {"start_failed", "died_during_startup", "no_runtime"}
          => ~rvOk)

\* the monitor loop has just logged that its start_server succeeded
MonitorRestarted(v) == variant = v /\ cmd = "monitor" /\ lastLog = "restarted"

\* C22: monitor_server of serve-n8n.sh and of scripts/serve-n8n.mjs: the
\* restart counter is zero right after every start that succeeded
C22_ResetOnSuccess ==
    \A v \in {"sh", "scr"} : MonitorRestarted(v) => ct = 0

\* the `monitor` command has ended, a launcher having been found by every
\* start_server it ran
MonitorEnded(v) ==
    /\ variant = v /\ cmd = "monitor" /\ pc = "done"
    /\ lastLog # "no_runtime"

\* C23: the monitor command of serve-n8n.sh and of index.mjs ends only when
\* its restart counter has reached max_restarts, whatever start attempts,
\* the one made before the loop included, have failed
C23_MonitorSurvivesStartupFailures ==
    \A v \in {"sh", "idx"} : MonitorEnded(v) => ct >= MAX_RESTARTS

\* no launcher is installed and the invocation is about to run start_server
\* once more, having spawned through an earlier start_server already
RetriesWithoutRuntime(v) ==
    /\ variant = v /\ avail = {}
    /\ pc \in {"sh_start", "idx_start"}
    /\ nextPid > 2

\* C24: serve-n8n.sh and index.mjs: once start_server has reported that no
\* launcher was found the invocation is over, and with no launcher installed
\* no invocation runs start_server a second time
C24_NoRuntimeNeverRetried ==
    /\ lastLog = "no_runtime" => pc = "done"
    /\ \A v \in {"sh", "idx"} : ~RetriesWithoutRuntime(v)

\* invocation i takes its self-healing step: is_running's rm -f, or
\* server_status's set_pid(null)
Heals(i) == inv[i].pc = "heal" /\ inv'[i].pc # "heal"

\* one invocation runs a liveness check and the other the start command
CheckBesideStart ==
    \E i, j \in Invocations : inv[i].op = "check" /\ inv[j].op = "start"
\* no invocation is running
AllIdle == \A i \in Invocations : inv[i].pc = "idle"

\* C25: serve-n8n.sh and index.mjs, a liveness check interleaved with a start
\* of another invocation: the self-healing delete never removes a pid file
\* that records a live child, and once both invocations are idle the pid file
\* records the live child
C25_LockFreeSharingSafe ==
    /\ [][\A i \in Invocations :
            Heals(i) => ~(pidFile > 0 /\ pidFile \in alive)]_vars
    /\ [](CheckBesideStart /\ AllIdle /\ alive # {} => pidFile \in alive)

\* C26: while an invocation writes a pid to the pid file, a read of the file
\* by another invocation observes the file as it was before or the whole new
\* pid, never the empty file in between
C26_AtomicRecordWrite ==
    \A i \in Invocations : inv[i].saw # "torn"

\* both invocations run the start command
BothStart == \A i \in Invocations : inv[i].op = "start"

\* C27: serve-n8n.sh and index.mjs, two start commands running side by side
\* with no process alive at first: at most one child is ever alive, and when
\* both invocations are idle the pid file records the child that is alive
C27_ConcurrentStarts ==
    BothStart =>
        /\ Cardinality(alive) <= 1
        /\ AllIdle /\ alive # {} => pidFile \in alive

\* a step that writes a pid the pid file did not hold
RecordsPid == pidFile' > 0 /\ pidFile' # pidFile
\* a step in which stop_server sends its first SIGTERM
SendsFirstTerm == "term" \notin acts /\ "term" \in acts'

\* C28: serve-n8n.sh and index.mjs: a pid is written to the pid file only by
\* the step that spawned the child with that pid, and stop_server sends its
\* SIGTERM to the pid the pid file recorded
C28_SignalsOnlyOwnChild ==
    /\ [][(variant \in {"sh", "idx"} /\ RecordsPid)
            => (pidFile' = nextPid /\ nextPid' = nextPid + 1)]_vars
    /\ [][(variant \in {"sh", "idx"} /\ SendsFirstTerm)
            => (tpid' = pidFile /\ pidFile > 0)]_vars

\* the pid file records a process that is alive
TrackedAlive == pidFile > 0 /\ pidFile \in alive
\* the outcomes of a health probe that are failures
ProbeFailures == Probes \ {"ok"}

\* C29: whenever the tracked process is alive, every failure of the health
\* probe gives "alive, not healthy": inspect_state of index.mjs returns the
\* pid with health false, health_check of serve-n8n.sh and is_healthy of
\* scripts/serve-n8n.mjs return false
C29_ProbeFailureIsUnhealthy ==
    TrackedAlive =>
        \A p \in ProbeFailures :
            /\ variant = "idx" =>
                 LET st == inspect_state(pidFile, alive, 0, p)
                 IN st.pid = pidFile /\ ~st.health
            /\ variant = "sh" => ~health_check(p)
            /\ variant = "scr" => ~is_healthy(p)

\* the supervisor waits for a health probe that will never return
BlockedInProbe == pc = "sh_blocked"

\* C30: no variant is ever stalled by a health probe whose request is never
\* answered: the probe gives up, so start returns and every monitor pass ends
\* (fetch of index.mjs ends in one of the outcomes of Probes, is_healthy of
\* scripts/serve-n8n.mjs sends no request)
C30_NoUnboundedBlocking == ~BlockedInProbe

\* C31: restart_server of index.mjs, whatever the liveness checks and probes
\* answer: a chain begun by restart_server(0) makes at most max_restarts start
\* attempts, and its counter _ct never exceeds max_restarts
C31_IdxRestartTerminates ==
    variant = "idx" => restartAttempts <= MAX_RESTARTS /\ ct <= MAX_RESTARTS

\* C32: restart_server of index.mjs reports 'server restarted successfully'
\* only for a child spawned after the old process was stopped: at that report
\* the tracked pid is never a pid that was running before the call
RestartReported == variant = "idx" /\ cmd = "restart" /\ lastLog = "restarted"

C32_RestartSuccessIsNewProcess == RestartReported => pidFile \notin Earlier

\* start_server is between its grace check and the end of its polling loop,
\* a probe that does not return included
StartPolling ==
    \/ pc \in {"sh_grace", "sh_tick", "idx_grace", "idx_tick", "scr_grace",
               "scr_tick"}
    \/ pc = "sh_blocked"

\* the probes the loop has issued and the seconds it has slept stay within
\* startup_timeout
PollingWithin(v, grace, t) ==
    variant = v /\ pc = v \o "_tick" =>
        /\ attempts + 1 <= startup_timeout \div t
        /\ slept - grace <= startup_timeout

\* C33: start_server of serve-n8n.sh, index.mjs and scripts/serve-n8n.mjs: the
\* polling loop always ends, it issues at most startup_timeout / tick probes
\* and sleeps at most startup_timeout seconds
C33_StartupPollingBounded ==
    /\ [](/\ PollingWithin("sh", ShGrace, ShTick)
          /\ PollingWithin("idx", IdxGrace, IdxTick)
          /\ PollingWithin("scr", ScrGrace, ScrTick))
    /\ (StartPolling ~> ~StartPolling)

\* a start attempt of monitor (of the restart chain, in index.mjs) has just
\* returned as failed
FailedAttemptReturns ==
    \/ variant = "sh" /\ pc = "sh_monitor_ret" /\ ~rvOk
    \/ variant = "scr" /\ pc = "scr_monitor_ret" /\ ScrIsRunning = 0
    \/ variant = "idx" /\ pc = "idx_restart_ret" /\ ~rvOk
\* the step calls start_server again after a failed attempt
NextAttemptBegins ==
    /\ ct > 0
    /\ \/ pc = "sh_monitor" /\ pc' = "sh_start"
       \/ pc = "scr_monitor" /\ pc' = "scr_start"
       \/ pc = "idx_restart_b" /\ pc' = "idx_start"

C35_MalformedRecordIsAbsence ==
    nextPid = 2 =>
        /\ reported = 0
        /\ lastLog \notin {"already_running", "unresponsive", "healthy"}
        /\ acts \cap {"term", "kill"} = {}
        /\ termSent = 0 /\ killSent = 0

\* C36: set_pid(null) of index.mjs and of scripts/serve-n8n.mjs: after one
\* call, and after any number of calls in a row, the pid file is absent,
\* whether or not it existed before
C36_ClearIsIdempotent == ct >= 1 => pidFile = Absent

\* stop_server is entered while the pid file names no live process
StopOnNothing ==
    /\ pc \in {"sh_stop", "idx_stop", "scr_stop"}
    /\ ~(pidFile > 0 /\ pidFile \in alive)

\* C37: stop_server of serve-n8n.sh, index.mjs and scripts/serve-n8n.mjs with
\* no live tracked process: it reports 'not running', sends no signal, spawns
\* nothing, and changes nothing but a stale pid file, which it may remove
C37_StopOnNothingIsNoOp ==
    [][(StopOnNothing /\ pc' # pc) =>
          (/\ lastLog' = "not_running"
           /\ acts' = acts /\ alive' = alive /\ nextPid' = nextPid
           /\ pidFile' \in {pidFile, Absent})]_vars

\* C38: service.ps1 poll and monitor with -count N: for N > 0 the loop makes
\* no more than N passes and has made exactly N when the command ends; for
\* N <= 0 the command does not end
C38_CountBoundsLoop ==
    /\ svc.count > 0 => svc.runs <= svc.count
    /\ svc.count > 0 /\ pc = "done" => svc.runs = svc.count
    /\ svc.count <= 0 => pc # "done"
====
